---- MODULE Spec2Model ----
(***************************************************************************)
(* The job launch workflow of python/fedml/cli/modules/launch.py: the      *)
(* launch driver (fedml_launch_default, _launch_job,                       *)
(* _launch_job_with_cluster), the result interpreter (_check_match_result),*)
(* the resource presenter (_match_and_show_resources), the negotiation     *)
(* coordinator (_resources_matched_and_confirmed) and process_job_result.  *)
(*                                                                         *)
(* One run of the command is one behaviour.  pc is the position of the     *)
(* single thread of control; the steps are cut where the program blocks on *)
(* the platform (a remote call) or on the user (click.confirm).  trace is  *)
(* the sequence of remote calls, prompts, presentations and coordinator    *)
(* returns in the order the program performs them; console is what         *)
(* click.echo / print wrote.                                               *)
(***************************************************************************)
EXTENDS Integers, Sequences, FiniteSets, TLC

VARIABLES pc, yaml_file, cluster, api_key, schedule_result, match_result,
          gpu_matched, returned, proceed, result, fault, trace, console

vars == <<pc, yaml_file, cluster, api_key, schedule_result, match_result,
          gpu_matched, returned, proceed, result, fault, trace, console>>

----------------------------------------------------------------------------
(* Bounds of the model *)

\* longest matched-resource list the scheduler returns
MaxGpus == 2
\* job ids are 1..MaxJobId
MaxJobId == 2

----------------------------------------------------------------------------
(* Values *)

\* Python's None where a string is expected
None == "<None>"

\* an optional list: getattr(result, "gpu_matched", None)
NoneList == [is_none |-> TRUE, items |-> <<>>]
SomeList(s) == [is_none |-> FALSE, items |-> s]

\* Constants.JOB_START_STATUS_*
JOB_START_STATUS_INVALID == "INVALID"
JOB_START_STATUS_BLOCKED == "BLOCKED"
JOB_START_STATUS_QUEUED == "QUEUED"
JOB_START_STATUS_BIND_CREDIT_CARD_FIRST == "BIND_CREDIT_CARD_FIRST"
JOB_START_STATUS_QUERY_CREDIT_CARD_BINDING_STATUS_FAILED == "QUERY_CREDIT_CARD_BINDING_STATUS_FAILED"

\* ApiConstants.RESOURCE_MATCHED_STATUS_*
RESOURCE_MATCHED_STATUS_MATCHED == "MATCHED"
RESOURCE_MATCHED_STATUS_JOB_URL_ERROR == "ERROR_JOB_URL"
RESOURCE_MATCHED_STATUS_QUEUED == "QUEUED"
RESOURCE_MATCHED_STATUS_QUEUE_CANCELED == "QUEUE_CANCELED"
RESOURCE_MATCHED_STATUS_BIND_CREDIT_CARD_FIRST == "BIND_CREDIT_CARD_FIRST"
RESOURCE_MATCHED_STATUS_QUERY_CREDIT_CARD_BINDING_STATUS_FAILED == "QUERY_CREDIT_CARD_BINDING_STATUS_FAILED"

\* SchedulerConstants.PLATFORM_TYPE_FALCON
PLATFORM_TYPE_FALCON == "falcon"

\* the statuses a schedule result can carry: the five the interpreter names,
\* and two it does not
Statuses == {JOB_START_STATUS_INVALID, JOB_START_STATUS_BLOCKED,
             JOB_START_STATUS_QUEUED,
             JOB_START_STATUS_BIND_CREDIT_CARD_FIRST,
             JOB_START_STATUS_QUERY_CREDIT_CARD_BINDING_STATUS_FAILED,
             "MATCHED", "UNKNOWN"}

JobIds == 1..MaxJobId
JobUrls == {"", "http://x"}
Messages == {None, "quota exceeded"}
GpuDevices == {"gpu_a", "gpu_b"}
ClusterIds == {None, "", "cluster_1"}
ApiKeys == {None, "key_1"}
ClusterOptions == {None, "", "my_cluster"}
YamlArgs == {<<>>, <<"job.yaml">>}

RECURSIVE SeqsUpTo(_, _)
SeqsUpTo(S, n) ==
    IF n = 0 THEN {<<>>}
    ELSE LET shorter == SeqsUpTo(S, n - 1)
         IN  shorter \cup {Append(s, x) : s \in shorter, x \in S}

GpuMatchedValues == {NoneList} \cup {SomeList(s) : s \in SeqsUpTo(GpuDevices, MaxGpus)}

\* what schedule_job / schedule_job_on_cluster can return
ScheduleResults ==
    [job_id : JobIds, job_url : JobUrls, status : Statuses, message : Messages,
     gpu_matched : GpuMatchedValues, cluster_id : ClusterIds]

\* schedule_result before the schedule call has returned
NoScheduleResult ==
    [job_id |-> 0, job_url |-> "", status |-> None, message |-> None,
     gpu_matched |-> NoneList, cluster_id |-> None]

\* what run_scheduled_job can return: None, or a launch result
NoneResult ==
    [is_none |-> TRUE, job_id |-> 0, job_url |-> "", message |-> None,
     project_name |-> None]
LaunchResults ==
    {NoneResult} \cup
    [is_none : {FALSE}, job_id : JobIds, job_url : JobUrls, message : Messages,
     project_name : {"project_1"}]

\* one entry of trace
Event(op, args) == [op |-> op, args |-> args]

----------------------------------------------------------------------------
(* The state after the command line is parsed *)

Init ==
    /\ pc = "fedml_launch_default"
    /\ yaml_file \in YamlArgs
    /\ cluster \in ClusterOptions
    /\ api_key \in ApiKeys
    /\ schedule_result = NoScheduleResult
    /\ match_result = None
    /\ gpu_matched = NoneList
    /\ returned = FALSE
    /\ proceed = FALSE
    /\ result = NoneResult
    /\ fault = None
    /\ trace = <<>>
    /\ console = <<>>

----------------------------------------------------------------------------
(* The launch driver, first half *)

\* variant: an empty cluster name is treated like no cluster option
fedml_launch_default_empty_is_plain ==
    /\ pc = "fedml_launch_default"
    /\ IF Len(yaml_file) = 0
       THEN /\ pc' = "fault"
            /\ fault' = "IndexError"
       ELSE /\ pc' = IF cluster = None \/ cluster = ""
                     THEN "launch_job" ELSE "launch_job_with_cluster"
            /\ fault' = fault
    /\ UNCHANGED <<yaml_file, cluster, api_key, schedule_result, match_result,
                   gpu_matched, returned, proceed, result, trace, console>>

\* fedml_launch_default: yaml_file[0] selects the job file, cluster the path
fedml_launch_default ==
    /\ pc = "fedml_launch_default"
    /\ IF Len(yaml_file) = 0
       THEN /\ pc' = "fault"
            /\ fault' = "IndexError"
       ELSE /\ pc' = IF cluster = None THEN "launch_job" ELSE "launch_job_with_cluster"
            /\ fault' = fault
    /\ UNCHANGED <<yaml_file, cluster, api_key, schedule_result, match_result,
                   gpu_matched, returned, proceed, result, trace, console>>

\* _launch_job, line 83: the schedule call returns a schedule result
schedule_job ==
    /\ pc = "launch_job"
    /\ \E r \in ScheduleResults :
          /\ schedule_result' = r
          /\ trace' = Append(trace, Event("schedule_job", <<yaml_file[1], api_key>>))
    /\ pc' = "check_match_result"
    /\ UNCHANGED <<yaml_file, cluster, api_key, match_result, gpu_matched,
                   returned, proceed, result, fault, console>>

\* _launch_job_with_cluster, line 91
schedule_job_on_cluster ==
    /\ pc = "launch_job_with_cluster"
    /\ \E r \in ScheduleResults :
          /\ schedule_result' = r
          /\ trace' = Append(trace, Event("schedule_job_on_cluster",
                                          <<yaml_file[1], cluster, api_key>>))
    /\ pc' = "check_match_result"
    /\ UNCHANGED <<yaml_file, cluster, api_key, match_result, gpu_matched,
                   returned, proceed, result, fault, console>>

----------------------------------------------------------------------------
(* The result interpreter, _check_match_result *)

\* the QUEUED branch is the only one that asks the user (line 129)
asks_to_join_queue(r) ==
    /\ r.job_url # ""
    /\ r.status = JOB_START_STATUS_QUEUED

\* variant: the job_url test is left out
check_match_result_no_url_test(r, join) ==
    IF r.status = JOB_START_STATUS_QUEUED
    THEN IF join THEN RESOURCE_MATCHED_STATUS_QUEUED
                 ELSE RESOURCE_MATCHED_STATUS_QUEUE_CANCELED
    ELSE IF r.status = JOB_START_STATUS_BIND_CREDIT_CARD_FIRST
         THEN RESOURCE_MATCHED_STATUS_BIND_CREDIT_CARD_FIRST
    ELSE IF r.status = JOB_START_STATUS_QUERY_CREDIT_CARD_BINDING_STATUS_FAILED
         THEN RESOURCE_MATCHED_STATUS_QUERY_CREDIT_CARD_BINDING_STATUS_FAILED
    ELSE RESOURCE_MATCHED_STATUS_MATCHED

\* variant: the two answers to the queue-join prompt are swapped
check_match_result_swapped_answer(r, join) ==
    IF r.job_url = "" THEN RESOURCE_MATCHED_STATUS_JOB_URL_ERROR
    ELSE IF r.status = JOB_START_STATUS_QUEUED
         THEN IF join THEN RESOURCE_MATCHED_STATUS_QUEUE_CANCELED
                      ELSE RESOURCE_MATCHED_STATUS_QUEUED
    ELSE IF r.status = JOB_START_STATUS_BIND_CREDIT_CARD_FIRST
         THEN RESOURCE_MATCHED_STATUS_BIND_CREDIT_CARD_FIRST
    ELSE IF r.status = JOB_START_STATUS_QUERY_CREDIT_CARD_BINDING_STATUS_FAILED
         THEN RESOURCE_MATCHED_STATUS_QUERY_CREDIT_CARD_BINDING_STATUS_FAILED
    ELSE RESOURCE_MATCHED_STATUS_MATCHED

\* variant: the credit-card branch is missing and falls through to the default
check_match_result_no_card_branch(r, join) ==
    IF r.job_url = "" THEN RESOURCE_MATCHED_STATUS_JOB_URL_ERROR
    ELSE IF r.status = JOB_START_STATUS_QUEUED
         THEN IF join THEN RESOURCE_MATCHED_STATUS_QUEUED
                      ELSE RESOURCE_MATCHED_STATUS_QUEUE_CANCELED
    ELSE IF r.status = JOB_START_STATUS_QUERY_CREDIT_CARD_BINDING_STATUS_FAILED
         THEN RESOURCE_MATCHED_STATUS_QUERY_CREDIT_CARD_BINDING_STATUS_FAILED
    ELSE RESOURCE_MATCHED_STATUS_MATCHED

\* variant: an INVALID status is treated as a failed submission
check_match_result_invalid_is_error(r, join) ==
    IF r.job_url = "" \/ r.status = JOB_START_STATUS_INVALID
    THEN RESOURCE_MATCHED_STATUS_JOB_URL_ERROR
    ELSE IF r.status = JOB_START_STATUS_QUEUED
         THEN IF join THEN RESOURCE_MATCHED_STATUS_QUEUED
                      ELSE RESOURCE_MATCHED_STATUS_QUEUE_CANCELED
    ELSE IF r.status = JOB_START_STATUS_BIND_CREDIT_CARD_FIRST
         THEN RESOURCE_MATCHED_STATUS_BIND_CREDIT_CARD_FIRST
    ELSE IF r.status = JOB_START_STATUS_QUERY_CREDIT_CARD_BINDING_STATUS_FAILED
         THEN RESOURCE_MATCHED_STATUS_QUERY_CREDIT_CARD_BINDING_STATUS_FAILED
    ELSE RESOURCE_MATCHED_STATUS_MATCHED

\* variant: the status switch runs before the job_url test
check_match_result_status_first(r, join) ==
    IF r.status = JOB_START_STATUS_INVALID THEN RESOURCE_MATCHED_STATUS_MATCHED
    ELSE IF r.status = JOB_START_STATUS_BLOCKED THEN RESOURCE_MATCHED_STATUS_MATCHED
    ELSE IF r.status = JOB_START_STATUS_QUEUED
         THEN IF join THEN RESOURCE_MATCHED_STATUS_QUEUED
                      ELSE RESOURCE_MATCHED_STATUS_QUEUE_CANCELED
    ELSE IF r.status = JOB_START_STATUS_BIND_CREDIT_CARD_FIRST
         THEN RESOURCE_MATCHED_STATUS_BIND_CREDIT_CARD_FIRST
    ELSE IF r.status = JOB_START_STATUS_QUERY_CREDIT_CARD_BINDING_STATUS_FAILED
         THEN RESOURCE_MATCHED_STATUS_QUERY_CREDIT_CARD_BINDING_STATUS_FAILED
    ELSE IF r.job_url = "" THEN RESOURCE_MATCHED_STATUS_JOB_URL_ERROR
    ELSE RESOURCE_MATCHED_STATUS_MATCHED

\* variant: a BLOCKED status ends the negotiation like a failed submission
check_match_result_blocked_is_error(r, join) ==
    IF r.job_url = "" \/ r.status = JOB_START_STATUS_BLOCKED
    THEN RESOURCE_MATCHED_STATUS_JOB_URL_ERROR
    ELSE IF r.status = JOB_START_STATUS_QUEUED
         THEN IF join THEN RESOURCE_MATCHED_STATUS_QUEUED
                      ELSE RESOURCE_MATCHED_STATUS_QUEUE_CANCELED
    ELSE IF r.status = JOB_START_STATUS_BIND_CREDIT_CARD_FIRST
         THEN RESOURCE_MATCHED_STATUS_BIND_CREDIT_CARD_FIRST
    ELSE IF r.status = JOB_START_STATUS_QUERY_CREDIT_CARD_BINDING_STATUS_FAILED
         THEN RESOURCE_MATCHED_STATUS_QUERY_CREDIT_CARD_BINDING_STATUS_FAILED
    ELSE RESOURCE_MATCHED_STATUS_MATCHED

\* variant: a job kept in the queue is treated as matched
check_match_result_join_is_matched(r, join) ==
    IF r.job_url = "" THEN RESOURCE_MATCHED_STATUS_JOB_URL_ERROR
    ELSE IF r.status = JOB_START_STATUS_QUEUED
         THEN IF join THEN RESOURCE_MATCHED_STATUS_MATCHED
                      ELSE RESOURCE_MATCHED_STATUS_QUEUE_CANCELED
    ELSE IF r.status = JOB_START_STATUS_BIND_CREDIT_CARD_FIRST
         THEN RESOURCE_MATCHED_STATUS_BIND_CREDIT_CARD_FIRST
    ELSE IF r.status = JOB_START_STATUS_QUERY_CREDIT_CARD_BINDING_STATUS_FAILED
         THEN RESOURCE_MATCHED_STATUS_QUERY_CREDIT_CARD_BINDING_STATUS_FAILED
    ELSE RESOURCE_MATCHED_STATUS_MATCHED

\* the outcome code; join is the answer to "Do you want to join the queue?"
check_match_result(r, join) ==
    IF r.job_url = "" THEN RESOURCE_MATCHED_STATUS_JOB_URL_ERROR
    ELSE IF r.status = JOB_START_STATUS_INVALID THEN RESOURCE_MATCHED_STATUS_MATCHED
    ELSE IF r.status = JOB_START_STATUS_BLOCKED THEN RESOURCE_MATCHED_STATUS_MATCHED
    ELSE IF r.status = JOB_START_STATUS_QUEUED
         THEN IF join THEN RESOURCE_MATCHED_STATUS_QUEUED
                      ELSE RESOURCE_MATCHED_STATUS_QUEUE_CANCELED
    ELSE IF r.status = JOB_START_STATUS_BIND_CREDIT_CARD_FIRST
         THEN RESOURCE_MATCHED_STATUS_BIND_CREDIT_CARD_FIRST
    ELSE IF r.status = JOB_START_STATUS_QUERY_CREDIT_CARD_BINDING_STATUS_FAILED
         THEN RESOURCE_MATCHED_STATUS_QUERY_CREDIT_CARD_BINDING_STATUS_FAILED
    ELSE RESOURCE_MATCHED_STATUS_MATCHED

\* what the interpreter echoes before it returns or asks
check_match_echo(r) ==
    IF r.job_url = ""
    THEN IF r.message # None
         THEN <<"Failed to launch the job with response messages: " \o r.message>>
         ELSE <<"Failed to launch the job. Please check if the network is available.">>
    ELSE IF r.status = JOB_START_STATUS_INVALID THEN <<"Please check your yaml file">>
    ELSE IF r.status = JOB_START_STATUS_BLOCKED
         THEN <<"maximum_cost_per_hour is too low, closest machines presented">>
    ELSE IF r.status = JOB_START_STATUS_QUEUED
         THEN <<"No resource available now, but we can keep your job in the waiting queue.">>
    ELSE IF r.status = JOB_START_STATUS_BIND_CREDIT_CARD_FIRST
         THEN <<"Please bind your credit card before launching the job.">>
    ELSE IF r.status = JOB_START_STATUS_QUERY_CREDIT_CARD_BINDING_STATUS_FAILED
         THEN <<"Failed to query credit card binding status. Please try again later.">>
    ELSE <<>>

\* line 167 up to the interpreter's return, or up to its prompt
interpret ==
    /\ pc = "check_match_result"
    /\ console' = console \o check_match_echo(schedule_result)
    /\ IF asks_to_join_queue(schedule_result)
       THEN /\ pc' = "confirm_queue"
            /\ match_result' = match_result
       ELSE /\ pc' = "matched_and_confirmed"
            /\ match_result' = check_match_result(schedule_result, FALSE)
    /\ UNCHANGED <<yaml_file, cluster, api_key, schedule_result, gpu_matched,
                   returned, proceed, result, fault, trace>>

\* lines 129-133: the user answers the queue-join prompt
confirm_queue ==
    /\ pc = "confirm_queue"
    /\ \E join \in BOOLEAN :
          /\ trace' = Append(trace, Event("confirm_queue", <<join>>))
          /\ match_result' = check_match_result(schedule_result, join)
          /\ console' = IF join
                        THEN Append(console, "You have confirmed to keep your job in the waiting list.")
                        ELSE console
    /\ pc' = "matched_and_confirmed"
    /\ UNCHANGED <<yaml_file, cluster, api_key, schedule_result, gpu_matched,
                   returned, proceed, result, fault>>

----------------------------------------------------------------------------
(* The resource presenter, _match_and_show_resources *)

\* variant: the length test is left out
match_and_show_resources_no_len_test(r) ==
    r.gpu_matched

\* the list handed back to the coordinator, None when there is nothing to show
match_and_show_resources(r) ==
    IF ~r.gpu_matched.is_none /\ Len(r.gpu_matched.items) > 0
    THEN r.gpu_matched
    ELSE NoneList

\* the table rows and the review URL it prints
show_resources_echo(r) ==
    IF ~r.gpu_matched.is_none /\ Len(r.gpu_matched.items) > 0
    THEN <<"Searched and matched the following GPU resource for your job:">>
         \o r.gpu_matched.items
         \o <<"You can also view the matched GPU resource with Web UI at: ", r.job_url>>
    ELSE <<>>

----------------------------------------------------------------------------
(* The negotiation coordinator, _resources_matched_and_confirmed *)

\* variant: the stop call is issued twice
job_stop_twice(t, r, key) ==
    t \o << Event("job.stop", <<r.job_id, PLATFORM_TYPE_FALCON, key>>),
            Event("job.stop", <<r.job_id, PLATFORM_TYPE_FALCON, key>>) >>

\* variant: the stop call is made without the caller's credential
job_stop_no_key(t, r, key) ==
    Append(t, Event("job.stop", <<r.job_id, PLATFORM_TYPE_FALCON, None>>))

\* variant: the stop call names no job
job_stop_no_job_id(t, r, key) ==
    Append(t, Event("job.stop", <<0, PLATFORM_TYPE_FALCON, key>>))

\* fedml.api.job.stop(schedule_result.job_id, PLATFORM_TYPE_FALCON, api_key=api_key)
job_stop(t, r, key) ==
    Append(t, Event("job.stop", <<r.job_id, PLATFORM_TYPE_FALCON, key>>))

\* the coordinator hands its boolean back to the driver
coordinator_return(t, value) ==
    Append(t, Event("return", <<value>>))

\* variant: the coordinator returns before the job is stopped
abort_then_cancel(t, r, key) ==
    Append(Append(t, Event("return", <<FALSE>>)),
           Event("job.stop", <<r.job_id, PLATFORM_TYPE_FALCON, key>>))

\* lines 169-170 and 178-179: stop the job, then return False
cancel_and_abort(t, r, key) ==
    coordinator_return(job_stop(t, r, key), FALSE)

\* lines 168-174 and 183: act on the interpreter's outcome
matched_and_confirmed ==
    /\ pc = "matched_and_confirmed"
    /\ IF match_result = RESOURCE_MATCHED_STATUS_QUEUE_CANCELED
       THEN /\ trace' = cancel_and_abort(trace, schedule_result, api_key)
            /\ pc' = "coordinator_returned"
            /\ returned' = TRUE
            /\ proceed' = FALSE
            /\ UNCHANGED <<gpu_matched, console>>
       ELSE IF match_result = RESOURCE_MATCHED_STATUS_MATCHED
       THEN /\ gpu_matched' = match_and_show_resources(schedule_result)
            /\ console' = console \o show_resources_echo(schedule_result)
            /\ IF match_and_show_resources(schedule_result).is_none
               THEN /\ trace' = coordinator_return(
                                   Append(trace, Event("match_and_show_resources", <<>>)),
                                   FALSE)
                    /\ pc' = "coordinator_returned"
                    /\ returned' = TRUE
                    /\ proceed' = FALSE
               ELSE /\ trace' = Append(trace, Event("match_and_show_resources", <<>>))
                    /\ pc' = "confirm_launch"
                    /\ UNCHANGED <<returned, proceed>>
       ELSE /\ trace' = coordinator_return(trace, FALSE)
            /\ pc' = "coordinator_returned"
            /\ returned' = TRUE
            /\ proceed' = FALSE
            /\ UNCHANGED <<gpu_matched, console>>
    /\ UNCHANGED <<yaml_file, cluster, api_key, schedule_result, match_result,
                   result, fault>>

\* variant: the return False after the stop call is missing, so a declined
\* launch falls through to return True
confirm_launch_falls_through ==
    /\ pc = "confirm_launch"
    /\ \E launch \in BOOLEAN :
          IF ~launch
          THEN /\ console' = console \o
                     <<"Cancelling the job with the above matched GPU resource.",
                       "Launching the job with the above matched GPU resource.">>
               /\ trace' = coordinator_return(
                              job_stop(Append(trace, Event("confirm_launch", <<launch>>)),
                                       schedule_result, api_key),
                              TRUE)
          ELSE /\ console' = Append(console, "Launching the job with the above matched GPU resource.")
               /\ trace' = coordinator_return(
                              Append(trace, Event("confirm_launch", <<launch>>)), TRUE)
    /\ proceed' = TRUE
    /\ pc' = "coordinator_returned"
    /\ returned' = TRUE
    /\ UNCHANGED <<yaml_file, cluster, api_key, schedule_result, match_result,
                   gpu_matched, result, fault>>

\* variant: a declined launch asks again instead of cancelling
confirm_launch_asks_again ==
    /\ pc = "confirm_launch"
    /\ \E launch \in BOOLEAN :
          IF ~launch
          THEN /\ console' = console
               /\ trace' = trace
               /\ pc' = "matched_and_confirmed"
               /\ UNCHANGED <<proceed, returned>>
          ELSE /\ console' = Append(console, "Launching the job with the above matched GPU resource.")
               /\ trace' = coordinator_return(
                              Append(trace, Event("confirm_launch", <<launch>>)), TRUE)
               /\ proceed' = TRUE
               /\ pc' = "coordinator_returned"
               /\ returned' = TRUE
    /\ UNCHANGED <<yaml_file, cluster, api_key, schedule_result, match_result,
                   gpu_matched, result, fault>>

\* lines 176-182: the user answers the launch-confirmation prompt
confirm_launch ==
    /\ pc = "confirm_launch"
    /\ \E launch \in BOOLEAN :
          IF ~launch
          THEN /\ console' = Append(console, "Cancelling the job with the above matched GPU resource.")
               /\ trace' = cancel_and_abort(
                              Append(trace, Event("confirm_launch", <<launch>>)),
                              schedule_result, api_key)
               /\ proceed' = FALSE
          ELSE /\ console' = Append(console, "Launching the job with the above matched GPU resource.")
               /\ trace' = coordinator_return(
                              Append(trace, Event("confirm_launch", <<launch>>)), TRUE)
               /\ proceed' = TRUE
    /\ pc' = "coordinator_returned"
    /\ returned' = TRUE
    /\ UNCHANGED <<yaml_file, cluster, api_key, schedule_result, match_result,
                   gpu_matched, result, fault>>

----------------------------------------------------------------------------
(* The launch driver, second half *)

\* process_job_result, lines 186-212: what it echoes before the status query
process_job_echo(res) ==
    IF res.is_none THEN <<"Failed to launch the job">>
    ELSE IF res.job_url = ""
         THEN IF res.message # None
              THEN <<"Failed to launch the job with response messages: " \o res.message>>
              ELSE <<"Failed to launch the job">>
    ELSE <<>>

\* _launch_job, lines 85-86: the plain path acts on the coordinator's boolean
launch_job ==
    /\ pc = "coordinator_returned"
    /\ cluster = None
    /\ IF proceed
       THEN /\ \E res \in LaunchResults : result' = res
            /\ trace' = Append(trace, Event("run_scheduled_job", <<schedule_result, api_key>>))
            /\ pc' = "process_job_result"
       ELSE /\ pc' = "done"
            /\ UNCHANGED <<result, trace>>
    /\ UNCHANGED <<yaml_file, cluster, api_key, schedule_result, match_result,
                   gpu_matched, returned, proceed, fault, console>>

\* _launch_job line 87: process_job_result(result).  A None result returns
\* at line 189.  Otherwise lines 198-199 build the arguments of
\* fedml.api.job_list; api_key is no parameter, local or module global of
\* process_job_result, so reading it raises NameError before job_list is
\* entered, and nothing catches it.
process_job_result ==
    /\ pc = "process_job_result"
    /\ console' = console \o process_job_echo(result)
    /\ IF result.is_none
       THEN /\ pc' = "done"
            /\ fault' = fault
       ELSE /\ pc' = "fault"
            /\ fault' = "NameError"
    /\ trace' = trace
    /\ UNCHANGED <<yaml_file, cluster, api_key, schedule_result, match_result,
                   gpu_matched, returned, proceed, result>>

\* variant: only a missing cluster id is refused, the empty string passes
cluster_id_missing_none_only(r) ==
    r.cluster_id = None

\* schedule_result.cluster_id is unusable (line 96)
cluster_id_missing(r) ==
    r.cluster_id = None \/ r.cluster_id = ""

\* variant: a rejected cluster confirmation stops the job
launch_job_with_cluster_cancels_on_failure ==
    /\ pc = "coordinator_returned"
    /\ cluster # None
    /\ IF ~proceed
       THEN UNCHANGED <<trace, console>>
       ELSE IF cluster_id_missing(schedule_result)
       THEN /\ console' = Append(console, "Cluster id was not assigned. Please check if the cli arguments are valid")
            /\ trace' = trace
       ELSE \E cluster_confirmed \in BOOLEAN :
               /\ trace' =
                     IF cluster_confirmed
                     THEN Append(trace, Event("confirm_cluster_and_start_job",
                                     <<schedule_result.cluster_id,
                                       schedule_result.gpu_matched>>))
                     ELSE job_stop(Append(trace, Event("confirm_cluster_and_start_job",
                                     <<schedule_result.cluster_id,
                                       schedule_result.gpu_matched>>)),
                                   schedule_result, api_key)
               /\ console' = Append(console,
                    IF cluster_confirmed
                    THEN "Cluster successfully confirmed and job will be started on cluster soon."
                    ELSE "Cluster confirmation failed. Please check if the cli arguments are valid")
    /\ pc' = "done"
    /\ UNCHANGED <<yaml_file, cluster, api_key, schedule_result, match_result,
                   gpu_matched, returned, proceed, result, fault>>

\* _launch_job_with_cluster, lines 93-105
launch_job_with_cluster ==
    /\ pc = "coordinator_returned"
    /\ cluster # None
    /\ IF ~proceed
       THEN UNCHANGED <<trace, console>>
       ELSE IF cluster_id_missing(schedule_result)
       THEN /\ console' = Append(console, "Cluster id was not assigned. Please check if the cli arguments are valid")
            /\ trace' = trace
       ELSE \E cluster_confirmed \in BOOLEAN :
               /\ trace' = Append(trace, Event("confirm_cluster_and_start_job",
                                     <<schedule_result.cluster_id,
                                       schedule_result.gpu_matched>>))
               /\ console' = Append(console,
                    IF cluster_confirmed
                    THEN "Cluster successfully confirmed and job will be started on cluster soon."
                    ELSE "Cluster confirmation failed. Please check if the cli arguments are valid")
    /\ pc' = "done"
    /\ UNCHANGED <<yaml_file, cluster, api_key, schedule_result, match_result,
                   gpu_matched, returned, proceed, result, fault>>

----------------------------------------------------------------------------

Next ==
    \/ fedml_launch_default
    \/ schedule_job
    \/ schedule_job_on_cluster
    \/ interpret
    \/ confirm_queue
    \/ matched_and_confirmed
    \/ confirm_launch
    \/ launch_job
    \/ process_job_result
    \/ launch_job_with_cluster

Spec == Init /\ [][Next]_vars

----------------------------------------------------------------------------
(* Reading the trace *)

\* the positions of the events named op
Positions(op) == {i \in DOMAIN trace : trace[i].op = op}
Count(op) == Cardinality(Positions(op))

\* the schedule call has returned: schedule_result is the received result
Scheduled == Count("schedule_job") + Count("schedule_job_on_cluster") > 0

\* the user's answers so far
QueueAnswered(a) == \E i \in Positions("confirm_queue") : trace[i].args = <<a>>
LaunchAnswered(a) == \E i \in Positions("confirm_launch") : trace[i].args = <<a>>

\* the coordinator has handed value back to the driver
CoordinatorReturned(value) ==
    /\ returned
    /\ proceed = value
    /\ \E i \in Positions("return") : trace[i].args = <<value>>

\* the driver is past the coordinator
PastCoordinator == pc \in {"coordinator_returned", "process_job_result", "done"}

\* the one cancel call the coordinator makes for the received result
TheCancelCall ==
    Event("job.stop", <<schedule_result.job_id, PLATFORM_TYPE_FALCON, api_key>>)

\* no prompt, no presentation, no cancel has happened
NothingNegotiated ==
    /\ Count("job.stop") = 0
    /\ Count("match_and_show_resources") = 0
    /\ Count("confirm_queue") = 0
    /\ Count("confirm_launch") = 0

----------------------------------------------------------------------------
(* The negotiation coordinator's cancel calls *)

\* C1: the cancel call job.stop is never issued twice; once the coordinator
\* has returned it has been issued exactly once if the outcome is
\* QUEUE_CANCELED or the launch confirmation was declined, and not at all in
\* every other outcome; before the coordinator returns it has not been issued.
C1_CancelExactlyOnceIffDeclined ==
    /\ Count("job.stop") <= 1
    /\ Count("return") <= 1
    /\ PastCoordinator => returned
    /\ returned =>
          (Count("job.stop") = 1
              <=> \/ match_result = RESOURCE_MATCHED_STATUS_QUEUE_CANCELED
                  \/ LaunchAnswered(FALSE))
    /\ ~returned => Count("job.stop") = 0

C1_Witness ==
    /\ pc = "done"
    /\ match_result = RESOURCE_MATCHED_STATUS_QUEUE_CANCELED
    /\ Count("job.stop") = 1

\* C2: a received schedule result whose job_url is the empty string, whatever
\* its status, message and matched resources, is never presented, never
\* prompted for and never cancelled, its outcome is the job-url error, and
\* the coordinator returns False for it.
C2_EmptyJobUrlIsTerminal ==
    (Scheduled /\ schedule_result.job_url = "") =>
        /\ NothingNegotiated
        /\ pc \in {"check_match_result", "matched_and_confirmed",
                   "coordinator_returned", "done"}
        /\ pc # "check_match_result" =>
              match_result = RESOURCE_MATCHED_STATUS_JOB_URL_ERROR
        /\ pc \in {"coordinator_returned", "done"} => CoordinatorReturned(FALSE)
        /\ Count("run_scheduled_job") = 0
        /\ Count("confirm_cluster_and_start_job") = 0

C2_Witness ==
    /\ pc = "done"
    /\ schedule_result.job_url = ""
    /\ schedule_result.status = JOB_START_STATUS_QUEUED
    /\ ~schedule_result.gpu_matched.is_none
    /\ Len(schedule_result.gpu_matched.items) > 0
    /\ CoordinatorReturned(FALSE)

\* C3: once the launch confirmation has been answered no, exactly one cancel
\* call has been issued, it carries the received result's job_id, the FALCON
\* platform tag and the caller's api_key, and the coordinator has returned
\* False.
C3_DeclinedLaunchCancelsOnce ==
    LaunchAnswered(FALSE) =>
        /\ Count("job.stop") = 1
        /\ \A i \in Positions("job.stop") : trace[i] = TheCancelCall
        /\ CoordinatorReturned(FALSE)
        /\ pc \in {"coordinator_returned", "done"}

C3_Witness ==
    /\ LaunchAnswered(FALSE)
    /\ pc = "done"
    /\ api_key # None
    /\ Count("job.stop") = 1

\* C4: for a received result with a job_url and status QUEUED, after the
\* queue-join prompt is answered yes the outcome is QUEUED, no cancel call is
\* ever issued and the coordinator returns False; after it is answered no the
\* outcome is QUEUE_CANCELED and the coordinator returns False having issued
\* exactly one cancel call, with the received job_id.  Neither answer leads to
\* presentation or to the launch prompt.
C4_QueuedResult ==
    (Scheduled /\ schedule_result.job_url # ""
               /\ schedule_result.status = JOB_START_STATUS_QUEUED) =>
        /\ pc \in {"check_match_result", "confirm_queue", "matched_and_confirmed",
                   "coordinator_returned", "done"}
        /\ pc \in {"matched_and_confirmed", "coordinator_returned", "done"} =>
              Count("confirm_queue") = 1
        /\ pc \in {"coordinator_returned", "done"} => CoordinatorReturned(FALSE)
        /\ QueueAnswered(TRUE) =>
              /\ match_result = RESOURCE_MATCHED_STATUS_QUEUED
              /\ Count("job.stop") = 0
        /\ QueueAnswered(FALSE) =>
              /\ match_result = RESOURCE_MATCHED_STATUS_QUEUE_CANCELED
              /\ returned =>
                    /\ Count("job.stop") = 1
                    /\ \A i \in Positions("job.stop") : trace[i] = TheCancelCall
              /\ ~returned => Count("job.stop") = 0

C4_Witness ==
    /\ pc = "done"
    /\ schedule_result.job_url # ""
    /\ schedule_result.status = JOB_START_STATUS_QUEUED
    /\ QueueAnswered(FALSE)
    /\ Count("job.stop") = 1
    /\ CoordinatorReturned(FALSE)

\* a second case of C4: the prompt accepted, the run over without a cancel
C4_WitnessJoined ==
    /\ pc = "done"
    /\ schedule_result.job_url # ""
    /\ schedule_result.status = JOB_START_STATUS_QUEUED
    /\ QueueAnswered(TRUE)
    /\ CoordinatorReturned(FALSE)

----------------------------------------------------------------------------
(* Launch after an accepted confirmation *)

\* the run is over, by a normal return or by an uncaught exception
Terminated == pc \in {"done", "fault"}

\* C5: once the launch confirmation has been accepted the coordinator has
\* returned True and no cancel call is ever issued, and a plain-path run
\* (_launch_job) ends having made exactly one run_scheduled_job call followed
\* by exactly one job_list query, whatever run_scheduled_job returned.
C5_AcceptedLaunchRunsThenQueriesStatus ==
    LaunchAnswered(TRUE) =>
        /\ CoordinatorReturned(TRUE)
        /\ Count("job.stop") = 0
        /\ (cluster = None /\ Terminated) =>
              /\ Count("run_scheduled_job") = 1
              /\ Count("job_list") = 1
              /\ \A i \in Positions("run_scheduled_job") :
                    \A j \in Positions("job_list") : i < j

----------------------------------------------------------------------------
(* Ordering of the cancel call and the coordinator's return *)

\* every cancel call in the trace comes before the coordinator's return
CancelBeforeReturn ==
    \A i \in Positions("job.stop") : \A j \in Positions("return") : i < j

\* the user declined the queue or the launch
UserDeclined == QueueAnswered(FALSE) \/ LaunchAnswered(FALSE)

\* C6 as stated: a cancel call, when issued, precedes the coordinator's
\* return; and whenever the coordinator has returned False for a created job
\* (non-empty job_url) that the user neither confirmed nor queued, that job
\* has been cancelled.
C6_NoAbortedJobLeftUncancelled ==
    /\ CancelBeforeReturn
    /\ (CoordinatorReturned(FALSE) /\ schedule_result.job_url # ""
            /\ ~LaunchAnswered(TRUE) /\ ~QueueAnswered(TRUE)) =>
          Count("job.stop") = 1

\* C6 as amended: a cancel call, when issued, precedes the coordinator's
\* return; and whenever the coordinator has returned False after the user
\* declined the queue-join prompt or the launch confirmation, the job has
\* been cancelled, the cancel call standing before the return in the trace.
C6_DeclinedJobCancelledBeforeReturn ==
    /\ CancelBeforeReturn
    /\ Count("job.stop") > 0 => CoordinatorReturned(FALSE)
    /\ (returned /\ UserDeclined) =>
          /\ CoordinatorReturned(FALSE)
          /\ \E i \in Positions("job.stop") :
                /\ trace[i] = TheCancelCall
                /\ \A j \in Positions("return") : i < j

C6_Witness ==
    /\ pc = "coordinator_returned"
    /\ QueueAnswered(FALSE)
    /\ CoordinatorReturned(FALSE)
    /\ Count("job.stop") = 1

----------------------------------------------------------------------------
(* Outcomes that end the negotiation without a prompt *)

\* C7: a received result with a job_url whose status is BIND_CREDIT_CARD_FIRST
\* or QUERY_CREDIT_CARD_BINDING_STATUS_FAILED is never presented, never
\* prompted for and never cancelled, and the coordinator returns False.
C7_PaymentStatusAbortsSilently ==
    (Scheduled /\ schedule_result.job_url # ""
       /\ schedule_result.status \in
             {JOB_START_STATUS_BIND_CREDIT_CARD_FIRST,
              JOB_START_STATUS_QUERY_CREDIT_CARD_BINDING_STATUS_FAILED}) =>
        /\ NothingNegotiated
        /\ pc \in {"check_match_result", "matched_and_confirmed",
                   "coordinator_returned", "done"}
        /\ pc \in {"coordinator_returned", "done"} => CoordinatorReturned(FALSE)

C7_Witness ==
    /\ pc = "done"
    /\ schedule_result.job_url # ""
    /\ schedule_result.status = JOB_START_STATUS_BIND_CREDIT_CARD_FIRST
    /\ ~schedule_result.gpu_matched.is_none
    /\ Len(schedule_result.gpu_matched.items) > 0
    /\ CoordinatorReturned(FALSE)

\* the received result has nothing to present
NoResources(r) == r.gpu_matched.is_none \/ Len(r.gpu_matched.items) = 0

\* C8: when the outcome is MATCHED and the matched-resource list is absent or
\* empty, the launch prompt is never shown, no cancel call is ever issued and
\* the coordinator returns False.
C8_NothingToPresentAborts ==
    (match_result = RESOURCE_MATCHED_STATUS_MATCHED /\ NoResources(schedule_result)) =>
        /\ pc \in {"matched_and_confirmed", "coordinator_returned", "done"}
        /\ Count("confirm_launch") = 0
        /\ Count("job.stop") = 0
        /\ pc \in {"coordinator_returned", "done"} =>
              /\ CoordinatorReturned(FALSE)
              /\ Count("match_and_show_resources") = 1

C8_Witness ==
    /\ pc = "done"
    /\ match_result = RESOURCE_MATCHED_STATUS_MATCHED
    /\ ~schedule_result.gpu_matched.is_none
    /\ Len(schedule_result.gpu_matched.items) = 0
    /\ CoordinatorReturned(FALSE)

\* C9: for a received result with a job_url, a non-empty matched-resource
\* list and a status that is INVALID, BLOCKED or none of the five the
\* interpreter names, presentation and the launch prompt each happen at most
\* once, never the queue prompt, and once the coordinator has returned each
\* has happened exactly once.
C9_SoftStatusesPresentAndPromptOnce ==
    (Scheduled /\ schedule_result.job_url # ""
       /\ ~NoResources(schedule_result)
       /\ schedule_result.status \notin
             {JOB_START_STATUS_QUEUED, JOB_START_STATUS_BIND_CREDIT_CARD_FIRST,
              JOB_START_STATUS_QUERY_CREDIT_CARD_BINDING_STATUS_FAILED}) =>
        /\ Count("match_and_show_resources") <= 1
        /\ Count("confirm_launch") <= 1
        /\ Count("confirm_queue") = 0
        /\ pc = "confirm_launch" =>
              Count("match_and_show_resources") = 1 /\ Count("confirm_launch") = 0
        /\ returned =>
              /\ Count("match_and_show_resources") = 1
              /\ Count("confirm_launch") = 1
              /\ \A i \in Positions("match_and_show_resources") :
                    \A j \in Positions("confirm_launch") : i < j

C9_Witness ==
    /\ pc = "done"
    /\ schedule_result.job_url # ""
    /\ schedule_result.status = JOB_START_STATUS_INVALID
    /\ Len(schedule_result.gpu_matched.items) = MaxGpus
    /\ Count("match_and_show_resources") = 1
    /\ Count("confirm_launch") = 1

----------------------------------------------------------------------------
(* The cluster-scoped launch path *)

\* C10: on the cluster path (_launch_job_with_cluster), a run that ends after
\* a confirmed negotiation has never called confirm_cluster_and_start_job if
\* the received cluster_id is missing or empty, and otherwise has called it
\* exactly once, with that cluster_id and the received matched resources; it
\* is never called before the negotiation is confirmed, and the plain path's
\* run_scheduled_job is never called.
C10_ClusterConfirmNeedsClusterId ==
    cluster # None =>
        /\ Count("run_scheduled_job") = 0
        /\ Count("confirm_cluster_and_start_job") > 0 =>
              pc = "done" /\ CoordinatorReturned(TRUE)
        /\ (pc = "done" /\ CoordinatorReturned(TRUE)) =>
              IF schedule_result.cluster_id = None \/ schedule_result.cluster_id = ""
              THEN Count("confirm_cluster_and_start_job") = 0
              ELSE /\ Count("confirm_cluster_and_start_job") = 1
                   /\ \A i \in Positions("confirm_cluster_and_start_job") :
                         trace[i].args = <<schedule_result.cluster_id,
                                           schedule_result.gpu_matched>>

C10_Witness ==
    /\ cluster # None
    /\ pc = "done"
    /\ CoordinatorReturned(TRUE)
    /\ schedule_result.cluster_id = ""
    /\ Count("confirm_cluster_and_start_job") = 0

----------------------------------------------------------------------------
(* Failures and the launch driver *)

\* C11: every failure is handled inside the launch driver by a message and a
\* normal return: once a driver entry (_launch_job, _launch_job_with_cluster)
\* has made its schedule call, the run never ends in an uncaught exception,
\* whatever the schedule result, the answers and the execution result.
C11_NoUncaughtFaultPastTheDriver ==
    Scheduled => (pc # "fault" /\ fault = None)

\* the cancel calls that stand before the coordinator's return in the trace
CoordinatorCancels ==
    {i \in Positions("job.stop") : \E j \in Positions("return") : i < j}

\* what the cluster path echoes for a rejected confirmation and a missing id
ClusterConfirmationFailed ==
    \E i \in DOMAIN console :
        console[i] = "Cluster confirmation failed. Please check if the cli arguments are valid"
ClusterIdNotAssigned ==
    \E i \in DOMAIN console :
        console[i] = "Cluster id was not assigned. Please check if the cli arguments are valid"

\* C12: on the cluster path every cancel call in the trace is one the
\* coordinator issued before it returned; a run whose cluster confirmation
\* was rejected, or whose cluster_id was missing, has issued no cancel call
\* at all.
C12_ClusterFailureIssuesNoCancel ==
    cluster # None =>
        /\ Positions("job.stop") = CoordinatorCancels
        /\ (ClusterConfirmationFailed \/ ClusterIdNotAssigned) =>
              /\ pc = "done"
              /\ CoordinatorReturned(TRUE)
              /\ Count("job.stop") = 0

C12_Witness ==
    /\ cluster # None
    /\ pc = "done"
    /\ ClusterConfirmationFailed
    /\ Count("confirm_cluster_and_start_job") = 1
    /\ Count("job.stop") = 0

\* C13: the driver takes the cluster path exactly when a cluster option value
\* was supplied (cluster is not None, the empty string included); a plain-path
\* run never calls confirm_cluster_and_start_job, and a cluster-path run never
\* calls run_scheduled_job nor job_list.
C13_LaunchPathsAreDisjoint ==
    /\ pc = "launch_job" => cluster = None
    /\ pc = "launch_job_with_cluster" => cluster # None
    /\ Count("schedule_job") > 0 =>
          /\ cluster = None
          /\ Count("schedule_job_on_cluster") = 0
          /\ Count("confirm_cluster_and_start_job") = 0
    /\ Count("schedule_job_on_cluster") > 0 =>
          /\ cluster # None
          /\ Count("schedule_job") = 0
          /\ Count("run_scheduled_job") = 0
          /\ Count("job_list") = 0
          /\ pc # "process_job_result"
    /\ Count("run_scheduled_job") > 0 => cluster = None
    /\ Count("confirm_cluster_and_start_job") > 0 => cluster # None

C13_Witness ==
    /\ cluster = ""
    /\ pc = "done"
    /\ Count("schedule_job_on_cluster") = 1
    /\ Count("confirm_cluster_and_start_job") = 1
    /\ Count("run_scheduled_job") = 0

----------------------------------------------------------------------------
(* The interpreter's table *)

\* the reference table of the result interpreter
ReferenceOutcome(job_url, status, join) ==
    CASE job_url = "" -> "ERROR_JOB_URL"
      [] job_url # "" /\ status = "INVALID" -> "MATCHED"
      [] job_url # "" /\ status = "BLOCKED" -> "MATCHED"
      [] job_url # "" /\ status = "QUEUED" /\ join -> "QUEUED"
      [] job_url # "" /\ status = "QUEUED" /\ ~join -> "QUEUE_CANCELED"
      [] job_url # "" /\ status = "BIND_CREDIT_CARD_FIRST" -> "BIND_CREDIT_CARD_FIRST"
      [] job_url # "" /\ status = "QUERY_CREDIT_CARD_BINDING_STATUS_FAILED" ->
             "QUERY_CREDIT_CARD_BINDING_STATUS_FAILED"
      [] OTHER -> "MATCHED"

\* C14: the outcome the interpreter hands to the coordinator agrees with the
\* reference table for every job_url, status and queue answer: an empty
\* job_url gives the job-url error whatever the status; otherwise INVALID and
\* BLOCKED give MATCHED, QUEUED gives QUEUED on yes and QUEUE_CANCELED on no,
\* the two credit-card statuses give their own outcomes, and any other status
\* gives MATCHED.  The queue prompt is asked exactly for QUEUED with a job_url.
C14_InterpreterAgreesWithTable ==
    (Scheduled /\ pc # "check_match_result") =>
        /\ pc = "confirm_queue" =>
              /\ schedule_result.job_url # ""
              /\ schedule_result.status = "QUEUED"
        /\ pc # "confirm_queue" =>
              /\ match_result =
                    ReferenceOutcome(schedule_result.job_url, schedule_result.status,
                                     QueueAnswered(TRUE))
              /\ Count("confirm_queue") =
                    IF schedule_result.job_url # "" /\ schedule_result.status = "QUEUED"
                    THEN 1 ELSE 0

C14_Witness ==
    /\ pc = "matched_and_confirmed"
    /\ schedule_result.job_url = ""
    /\ schedule_result.status = JOB_START_STATUS_BIND_CREDIT_CARD_FIRST
    /\ match_result = RESOURCE_MATCHED_STATUS_JOB_URL_ERROR

----------------------------------------------------------------------------
(* Termination of the negotiation *)

\* the program is one thread that blocks only on a prompt or a remote call:
\* provided every prompt is answered and every remote call returns, a step
\* that can be taken is taken
LiveSpec == Spec /\ WF_vars(Next)

\* how far along the program text a position is
Rank(p) ==
    CASE p = "fedml_launch_default" -> 0
      [] p \in {"launch_job", "launch_job_with_cluster"} -> 1
      [] p = "check_match_result" -> 2
      [] p = "confirm_queue" -> 3
      [] p = "matched_and_confirmed" -> 4
      [] p = "confirm_launch" -> 5
      [] p = "coordinator_returned" -> 6
      [] p = "process_job_result" -> 7
      [] OTHER -> 8

\* the prompts, presentations, cancel calls and returns of the negotiation
NegotiationEvents ==
    Count("confirm_queue") + Count("match_and_show_resources")
        + Count("confirm_launch") + Count("job.stop") + Count("return")

\* C15: every negotiation terminates: once the schedule result is received
\* the coordinator eventually returns its boolean; no step goes back to an
\* earlier position (no re-prompt, no re-presentation, no retry); and once
\* the coordinator has returned, its boolean stays and no further prompt,
\* presentation, cancel call or return occurs.
C15_NegotiationTerminates ==
    /\ Scheduled ~> returned
    /\ [][Rank(pc') > Rank(pc)]_vars
    /\ [][returned => /\ returned'
                      /\ proceed' = proceed
                      /\ NegotiationEvents' = NegotiationEvents]_vars

C15_Witness ==
    /\ pc = "done"
    /\ returned
    /\ Count("return") = 1
    /\ Count("match_and_show_resources") = 1
    /\ Count("confirm_launch") = 1

----------------------------------------------------------------------------
(* Cancel, launch and the coordinator's boolean *)

\* the launch actions of the two paths
LaunchPositions ==
    Positions("run_scheduled_job") \cup Positions("confirm_cluster_and_start_job")

\* C16: no run contains both a cancel call (job.stop) and a launch action
\* (run_scheduled_job or confirm_cluster_and_start_job); a launch action
\* happens at most once, and only after the coordinator has returned True.
C16_CancelAndLaunchExclusive ==
    /\ ~(Count("job.stop") > 0 /\ LaunchPositions # {})
    /\ Cardinality(LaunchPositions) <= 1
    /\ \A k \in LaunchPositions :
          /\ proceed
          /\ \E j \in Positions("return") : j < k /\ trace[j].args = <<TRUE>>
          /\ \A j \in Positions("return") : trace[j].args = <<TRUE>>

C16_Witness ==
    /\ pc = "done"
    /\ cluster # None
    /\ Count("confirm_cluster_and_start_job") = 1
    /\ Count("job.stop") = 0
    /\ CoordinatorReturned(TRUE)

\* C17: the coordinator returns True exactly when the job_url is non-empty,
\* the status is none of QUEUED, BIND_CREDIT_CARD_FIRST and
\* QUERY_CREDIT_CARD_BINDING_STATUS_FAILED, the matched-resource list is
\* present and non-empty, and the launch prompt was answered yes; in every
\* other case it returns False.  The launch prompt is shown exactly when the
\* first three of these conditions hold.
C17_ReturnsTrueExactlyWhen ==
    returned =>
        /\ CoordinatorReturned(proceed)
        /\ proceed <=>
              /\ schedule_result.job_url # ""
              /\ schedule_result.status \notin
                    {"QUEUED", "BIND_CREDIT_CARD_FIRST",
                     "QUERY_CREDIT_CARD_BINDING_STATUS_FAILED"}
              /\ ~schedule_result.gpu_matched.is_none
              /\ Len(schedule_result.gpu_matched.items) > 0
              /\ LaunchAnswered(TRUE)
        /\ Count("confirm_launch") =
              IF /\ schedule_result.job_url # ""
                 /\ schedule_result.status \notin
                       {"QUEUED", "BIND_CREDIT_CARD_FIRST",
                        "QUERY_CREDIT_CARD_BINDING_STATUS_FAILED"}
                 /\ ~schedule_result.gpu_matched.is_none
                 /\ Len(schedule_result.gpu_matched.items) > 0
              THEN 1 ELSE 0

C17_Witness ==
    /\ pc = "coordinator_returned"
    /\ proceed
    /\ schedule_result.status = JOB_START_STATUS_BLOCKED
    /\ LaunchAnswered(TRUE)

\* C18: at most one yes/no prompt is shown per negotiation, so the queue-join
\* prompt and the launch prompt never both occur; a QUEUED result whose
\* queue-join prompt was accepted is never presented, never asked to confirm
\* the launch and never launched, even with a non-empty matched-resource list.
C18_AtMostOnePrompt ==
    /\ Count("confirm_queue") + Count("confirm_launch") <= 1
    /\ pc = "confirm_launch" => Count("confirm_queue") = 0
    /\ QueueAnswered(TRUE) =>
          /\ Count("match_and_show_resources") = 0
          /\ pc \in {"matched_and_confirmed", "coordinator_returned", "done"}
          /\ LaunchPositions = {}
          /\ returned => ~proceed

C18_Witness ==
    /\ pc = "done"
    /\ QueueAnswered(TRUE)
    /\ ~schedule_result.gpu_matched.is_none
    /\ Len(schedule_result.gpu_matched.items) > 0
    /\ Count("confirm_launch") = 0

----------------------------------------------------------------------------
(* The schedule call and its result *)

ScheduleCalls == Count("schedule_job") + Count("schedule_job_on_cluster")

\* the remote calls of the trace
RemoteCalls ==
    {i \in DOMAIN trace :
        trace[i].op \in {"schedule_job", "schedule_job_on_cluster", "job.stop",
                         "run_scheduled_job", "job_list",
                         "confirm_cluster_and_start_job"}}

\* C19: in every launch-driver run the schedule call is issued exactly once
\* and before every other remote call; the result it returns is handed to the
\* coordinator once and never changes afterwards; the job_id of a cancel call,
\* the result passed to run_scheduled_job and the arguments of
\* confirm_cluster_and_start_job are those of the received result.
C19_ScheduleOnceResultUnchanged ==
    /\ [](/\ ScheduleCalls <= 1
          /\ Rank(pc) >= 2 /\ fault # "IndexError" => ScheduleCalls = 1
          /\ \A i \in RemoteCalls :
                \E k \in Positions("schedule_job") \cup Positions("schedule_job_on_cluster") :
                    k <= i
          /\ \A i \in Positions("job.stop") :
                trace[i].args[1] = schedule_result.job_id
          /\ \A i \in Positions("run_scheduled_job") :
                trace[i].args[1] = schedule_result
          /\ \A i \in Positions("confirm_cluster_and_start_job") :
                trace[i].args = <<schedule_result.cluster_id, schedule_result.gpu_matched>>)
    /\ [][Scheduled => schedule_result' = schedule_result]_vars
    /\ [][pc' = "check_match_result" => ~Scheduled /\ schedule_result' \in ScheduleResults]_vars

C19_Witness ==
    /\ pc = "process_job_result"
    /\ ScheduleCalls = 1
    /\ Count("run_scheduled_job") = 1
    /\ schedule_result.job_id = MaxJobId

\* a second case of C19: a cancel call carrying the received job_id
C19_WitnessCancel ==
    /\ pc = "done"
    /\ ScheduleCalls = 1
    /\ Count("job.stop") = 1
    /\ schedule_result.job_id = MaxJobId

====
